---- MODULE Spec2Model ----
(***************************************************************************)
(* Ishido-style tile placement game: the game logic of the final snapshot  *)
(* (src/unnamed/part_001, lines 1-518): newGame, getValidPositions and the *)
(* click handler doMove with its hint timer.                               *)
(***************************************************************************)
EXTENDS Integers, Sequences, FiniteSets, TLC

VARIABLES
  tiles,           \* game.board.tiles: [x -> [y -> Tile]]
  nextStone,       \* game.board.nextStone (NoStone models undefined)
  stoneStack,      \* game.stoneStack, the last element is popped first
  validPositions,  \* game.validPositions, the cached array of positions
  score,           \* game.score
  fourWays,        \* game.fourWays
  showHint,        \* game.showHint
  timers,          \* number of pending setTimeout(showHint) callbacks
  gameOver,        \* the "Game over!" overlay is painted on the canvas
  bonusAdds,       \* how often line 480 has added finishBonus since the last newGame
  deal,            \* which outcome of Math.random the current board came from
  last,            \* the handler that ran last, with what it saw and decided
  page             \* the page around the game: context, image loads, handler, alert

vars == <<tiles, nextStone, stoneStack, validPositions, score, fourWays, showHint,
          timers, gameOver, bonusAdds, deal, last, page>>

gameVars == <<tiles, nextStone, stoneStack, validPositions, score, fourWays, showHint>>

------------------------------------------------------------------------------
(* Program constants *)

BOARD_WIDTH == 12
BOARD_HEIGHT == 8
TILE_WIDTH == 56
TILE_HEIGHT == 66
NumColors == 6
NumSymbols == 6
CanvasWidth == 788
NewBaseline == 484
NewTextWidth == 36   \* ctx.measureText('New').width in the 18px button font

fourwayBonuses == <<25, 50, 100, 200, 400, 600, 800, 1000, 5000, 10000, 25000, 50000>>
stonesLeftBonus == <<1000, 500, 100>>

(* Bounds of the model *)

NumDeals == 2
MaxTimers == 2
MaxBonusAdds == 3

------------------------------------------------------------------------------
(* Data types *)

EmptyTile == [type |-> "empty"]
Stone(color, symbol) == [type |-> "stone", symbol |-> symbol, color |-> color]
NoStone == [type |-> "undefined"]
Position2D(x, y) == [x |-> x, y |-> y]
NotMatching == [type |-> "NotMatching"]
Match(c, s) == [type |-> "Match", colorMatches |-> c, symbolMatches |-> s]

AllPositions ==
  [i \in 1..(BOARD_WIDTH * BOARD_HEIGHT) |->
     Position2D((i - 1) \div BOARD_HEIGHT, (i - 1) % BOARD_HEIGHT)]

inGrid(pos) ==
  pos.x >= 0 /\ pos.x < BOARD_WIDTH /\ pos.y >= 0 /\ pos.y < BOARD_HEIGHT

------------------------------------------------------------------------------
(* Outcomes of Math.random: each deal fixes the randomInt results of one   *)
(* newGame call: 12 draws of generatePlacedStones and 65 draws of shuffle.  *)
(* (The 96 background draws are cosmetic and are not modelled.)            *)

anchorDraws ==
  <<
        <<5, 0, 0, 2, 1, 1, 0, 2, 0, 0, 0, 0>>,
        <<4, 3, 2, 0, 0, 0, 2, 2, 0, 0, 0, 0>>,
        <<3, 5, 3, 1, 0, 2, 1, 0, 1, 1, 0, 0>>
  >>

shuffleDraws ==
  <<
        <<60, 33, 44, 58, 41, 49, 15, 25, 48, 41, 28, 20, 20, 33, 1, 1, 31, 17, 2, 12, 32, 32,
        17, 19, 6, 23, 20, 10, 18, 33, 0, 30, 1, 16, 19, 25, 3, 11, 25, 17, 1, 5, 0, 4, 17, 18,
        3, 3, 2, 14, 7, 10, 0, 9, 10, 1, 4, 2, 3, 2, 3, 3, 2, 1, 0>>,
        <<28, 61, 4, 28, 26, 35, 31, 10, 21, 52, 19, 16, 15, 4, 21, 48, 15, 14, 24, 19, 9, 6,
        5, 18, 27, 13, 24, 18, 3, 26, 19, 29, 8, 6, 11, 18, 27, 10, 7, 3, 11, 23, 13, 16, 3, 6,
        4, 10, 14, 14, 6, 1, 8, 1, 8, 7, 2, 1, 3, 0, 2, 1, 2, 1, 0>>,
        <<2, 0, 12, 32, 22, 7, 17, 16, 53, 50, 20, 15, 12, 3, 33, 9, 5, 41, 36, 6, 4, 2, 35, 2,
        4, 30, 7, 18, 27, 11, 24, 11, 6, 23, 15, 9, 2, 12, 21, 2, 18, 17, 8, 0, 7, 8, 0, 8, 7,
        8, 1, 7, 2, 10, 7, 1, 2, 7, 2, 1, 0, 3, 0, 1, 0>>
  >>

(* The cells the player clicks, move by move, in a game played on each deal *)
clickScript ==
  <<
        <<<<10,7>>, <<10,0>>, <<6,5>>, <<1,0>>, <<4,3>>, <<0,6>>, <<0,5>>, <<10,6>>, <<0,4>>,
        <<9,7>>, <<0,1>>, <<1,5>>, <<2,5>>, <<8,7>>, <<11,1>>, <<9,0>>, <<11,2>>, <<9,1>>,
        <<5,5>>, <<9,2>>, <<5,6>>, <<8,1>>, <<2,4>>, <<1,7>>, <<3,3>>, <<7,1>>, <<2,7>>,
        <<0,3>>, <<3,7>>, <<4,7>>, <<3,5>>, <<1,3>>, <<4,6>>, <<5,7>>, <<7,5>>, <<10,5>>,
        <<8,6>>, <<10,2>>, <<1,2>>, <<3,2>>, <<4,4>>, <<5,2>>, <<11,3>>, <<11,4>>, <<9,5>>,
        <<4,2>>, <<11,5>>, <<10,4>>, <<10,3>>, <<6,3>>, <<5,4>>, <<5,1>>, <<7,7>>, <<2,0>>,
        <<7,0>>, <<6,0>>, <<7,2>>, <<3,1>>, <<6,1>>, <<5,0>>, <<2,6>>, <<7,3>>, <<8,3>>,
        <<8,4>>, <<7,6>>, <<0,2>>>>,
        <<<<4,3>>, <<5,4>>, <<6,3>>, <<7,3>>, <<8,3>>, <<7,4>>, <<8,4>>, <<9,4>>, <<10,7>>,
        <<0,1>>, <<7,2>>, <<8,2>>, <<9,2>>, <<11,6>>, <<10,6>>, <<10,2>>, <<10,3>>, <<10,4>>,
        <<10,5>>, <<9,5>>, <<7,1>>, <<8,1>>, <<9,1>>, <<0,2>>, <<4,2>>, <<11,4>>, <<11,3>>,
        <<11,2>>, <<6,5>>, <<5,5>>, <<4,5>>, <<4,4>>, <<6,6>>, <<0,6>>, <<10,0>>, <<9,0>>,
        <<7,6>>, <<3,5>>, <<8,6>>, <<8,5>>, <<7,7>>, <<6,7>>, <<5,7>>, <<3,6>>, <<7,0>>,
        <<1,6>>, <<2,6>>, <<0,5>>, <<0,3>>, <<1,0>>, <<9,7>>, <<4,1>>, <<5,1>>, <<3,7>>,
        <<6,1>>, <<5,0>>, <<3,3>>, <<1,2>>, <<1,3>>, <<3,1>>, <<1,4>>, <<2,1>>, <<2,4>>,
        <<3,0>>, <<9,3>>, <<4,0>>>>,
        <<<<7,4>>, <<6,3>>, <<5,4>>, <<7,5>>, <<5,5>>, <<0,1>>, <<8,5>>, <<9,5>>, <<8,6>>,
        <<7,6>>, <<5,6>>, <<6,6>>, <<0,6>>, <<1,7>>, <<1,6>>, <<11,6>>, <<10,6>>, <<10,7>>,
        <<9,7>>, <<10,5>>, <<1,5>>, <<0,5>>, <<2,7>>, <<1,0>>, <<1,1>>, <<1,4>>, <<0,4>>,
        <<4,4>>, <<2,0>>, <<2,1>>, <<10,0>>, <<3,7>>, <<4,7>>, <<5,7>>, <<6,7>>, <<7,7>>,
        <<4,6>>, <<3,4>>, <<11,1>>, <<9,0>>, <<11,2>>, <<2,5>>, <<0,2>>, <<0,3>>, <<1,2>>,
        <<9,1>>, <<8,0>>, <<3,3>>, <<11,3>>, <<9,2>>, <<3,2>>, <<3,1>>, <<3,0>>, <<10,4>>,
        <<4,1>>, <<2,3>>, <<5,2>>, <<6,2>>, <<6,1>>, <<9,3>>, <<7,2>>, <<6,0>>, <<7,0>>,
        <<8,3>>, <<9,6>>, <<5,0>>>>
  >>

Deals == 1..NumDeals

------------------------------------------------------------------------------
(* newGame and its helpers *)

(* isInitialStonePosition with both centre cells in column BOARD_WIDTH / 2 *)
isCornerOrCentreColumn(position) ==
  LET x == position.x
      y == position.y
  IN  \/ (x = 0 \/ x = BOARD_WIDTH - 1) /\ (y = 0 \/ y = BOARD_HEIGHT - 1)
      \/ (x = BOARD_WIDTH \div 2 /\ y = BOARD_HEIGHT \div 2)
      \/ (x = BOARD_WIDTH \div 2 /\ y = BOARD_HEIGHT \div 2 - 1)

isInitialStonePosition(position) ==
  LET x == position.x
      y == position.y
  IN  \/ (x = 0 \/ x = BOARD_WIDTH - 1) /\ (y = 0 \/ y = BOARD_HEIGHT - 1)
      \/ (x = BOARD_WIDTH \div 2 /\ y = BOARD_HEIGHT \div 2)
      \/ (x = BOARD_WIDTH \div 2 - 1 /\ y = BOARD_HEIGHT \div 2 - 1)

(* array.filter(v => v !== value) *)
without(array, value) == SelectSeq(array, LAMBDA v: v # value)

(* The loop of generatePlacedStones without its filter of symbols *)
RECURSIVE placeStonesRepeating(_, _, _)
placeStonesRepeating(colors, symbols, draws) ==
  IF Len(colors) = 0 THEN <<>>
  ELSE LET color == colors[draws[1] + 1]
           symbol == symbols[draws[2] + 1]
       IN  <<Stone(color, symbol)>> \o
           placeStonesRepeating(without(colors, color), symbols,
                                SubSeq(draws, 3, Len(draws)))

RECURSIVE placeStones(_, _, _)
placeStones(colors, symbols, draws) ==
  IF Len(colors) = 0 THEN <<>>
  ELSE LET color == colors[draws[1] + 1]
           symbol == symbols[draws[2] + 1]
       IN  <<Stone(color, symbol)>> \o
           placeStones(without(colors, color), without(symbols, symbol),
                       SubSeq(draws, 3, Len(draws)))

(* draws: the results of the randomInt(maxIndex) calls, in call order *)
generatePlacedStones(draws) ==
  placeStones([i \in 1..NumColors |-> i - 1], [i \in 1..NumSymbols |-> i - 1], draws)

(* The tile loop of newGame visits x = 0..11, and for each x, y = 0..7, and   *)
(* pops the last of initialStones at every initial stone position.           *)
initialRank(position) ==
  Cardinality({i \in 1..Len(AllPositions) :
                 /\ isInitialStonePosition(AllPositions[i])
                 /\ i < position.x * BOARD_HEIGHT + position.y + 1})

initialTiles(placedStones) ==
  [x \in 0..(BOARD_WIDTH - 1) |->
    [y \in 0..(BOARD_HEIGHT - 1) |->
      IF isInitialStonePosition(Position2D(x, y))
        THEN LET k == Len(placedStones) - initialRank(Position2D(x, y))
             IN  IF k >= 1 THEN placedStones[k] ELSE NoStone
        ELSE EmptyTile]]

(* The three nested loops that fill stoneStack. loopStone(k) is the stone *)
(* of their k-th iteration (count, color, symbol in loop order). An        *)
(* iteration pushes its stone unless the filter removes something from     *)
(* placedStones, which it does when the stone is one of the placed stones  *)
(* and no earlier iteration has filtered it out already.                   *)
loopStone(k) == Stone(((k - 1) \div NumSymbols) % NumColors, (k - 1) % NumSymbols)

isPushed(placedStones, k) ==
  ~ /\ \E i \in 1..Len(placedStones) : placedStones[i] = loopStone(k)
    /\ \A j \in 1..(k - 1) : loopStone(j) # loopStone(k)

fillStack(placedStones) ==
  LET iterations == [k \in 1..(2 * NumColors * NumSymbols) |-> k]
      pushed == SelectSeq(iterations, LAMBDA k: isPushed(placedStones, k))
  IN  [i \in 1..Len(pushed) |-> loopStone(pushed[i])]

(* The swap of shuffle without its temp: array[i] is lost *)
swapWithoutTemp(array, i, j) == [array EXCEPT ![i] = array[j]]

swap(array, i, j) == [array EXCEPT ![i] = array[j], ![j] = array[i]]

(* The iterations i = from, from - 1, ..., to of the loop of shuffle, in    *)
(* that order; the iteration with index i (0-based) uses the draw          *)
(* randomInt(i), the (Len(array) - i)-th call. The range is halved instead *)
(* of peeled one iteration at a time, and the array between the halves is  *)
(* bound as a value, to keep the evaluation shallow.                       *)
RECURSIVE shuffleRange(_, _, _, _)
shuffleRange(array, draws, from, to) ==
  IF from = to
    THEN swap(array, from + 1, draws[Len(array) - from] + 1)
    ELSE LET mid == (from + to) \div 2
         IN  CHOOSE result \in
               {shuffleRange(half, draws, mid, to) :
                  half \in {shuffleRange(array, draws, from, mid + 1)}} : TRUE

shuffle(array, draws) ==
  IF Len(array) > 1 THEN shuffleRange(array, draws, Len(array) - 1, 1) ELSE array

(* array.pop() leaving the array as it was *)
notPopped(array) == array

(* array.pop() taking two elements off the array *)
afterPopTwice(array) ==
  IF Len(array) <= 1 THEN <<>> ELSE SubSeq(array, 1, Len(array) - 2)

(* array.pop(): the value returned and the array left *)
popped(array) == IF Len(array) = 0 THEN NoStone ELSE array[Len(array)]
afterPop(array) == IF Len(array) = 0 THEN array ELSE SubSeq(array, 1, Len(array) - 1)

------------------------------------------------------------------------------
(* Matching and the valid positions *)

(* match that looks at the colors only *)
matchColorOnly(s1, s2) ==
  IF s2.type = "empty" THEN Match(0, 0)
  ELSE IF s1.color = s2.color THEN Match(1, 0) ELSE NotMatching

(* match without its NotMatching result: a neighbour sharing nothing is    *)
(* treated like an empty cell                                              *)
matchIgnoringConflict(s1, s2) ==
  IF s2.type = "empty" THEN Match(0, 0)
  ELSE Match(IF s1.color = s2.color THEN 1 ELSE 0,
             IF s1.symbol = s2.symbol THEN 1 ELSE 0)

match(s1, s2) ==
  IF s2.type = "empty" THEN Match(0, 0)
  ELSE LET colorMatch == s1.color = s2.color
           symbolMatch == s1.symbol = s2.symbol
       IN  IF colorMatch \/ symbolMatch
             THEN Match(IF colorMatch THEN 1 ELSE 0, IF symbolMatch THEN 1 ELSE 0)
             ELSE NotMatching

(* getMatchResults without its test that the tile at the position is empty *)
matchResultsOnAnyTile(boardTiles, stone, position) ==
  LET x == position.x
      y == position.y
  IN  IF stone # NoStone
        THEN (IF x > 0 THEN <<match(stone, boardTiles[x - 1][y])>> ELSE <<>>) \o
             (IF x < BOARD_WIDTH - 1 THEN <<match(stone, boardTiles[x + 1][y])>> ELSE <<>>) \o
             (IF y > 0 THEN <<match(stone, boardTiles[x][y - 1])>> ELSE <<>>) \o
             (IF y < BOARD_HEIGHT - 1 THEN <<match(stone, boardTiles[x][y + 1])>> ELSE <<>>)
        ELSE <<>>

getMatchResults(boardTiles, stone, position) ==
  LET x == position.x
      y == position.y
  IN  IF stone # NoStone /\ boardTiles[x][y].type = "empty"
        THEN (IF x > 0 THEN <<match(stone, boardTiles[x - 1][y])>> ELSE <<>>) \o
             (IF x < BOARD_WIDTH - 1 THEN <<match(stone, boardTiles[x + 1][y])>> ELSE <<>>) \o
             (IF y > 0 THEN <<match(stone, boardTiles[x][y - 1])>> ELSE <<>>) \o
             (IF y < BOARD_HEIGHT - 1 THEN <<match(stone, boardTiles[x][y + 1])>> ELSE <<>>)
        ELSE <<>>

(* isNonEmptyMatch letting the Match of an empty neighbour through *)
isAnyMatch(m) == m.type = "Match"

isNonEmptyMatch(m) ==
  m.type = "Match" /\ (m.colorMatches > 0 \/ m.symbolMatches > 0)

nonEmptyMatches(matchResults) == SelectSeq(matchResults, isNonEmptyMatch)

RECURSIVE sumMatches(_, _)
sumMatches(matching, sum) ==
  IF Len(matching) = 0 THEN sum
  ELSE sumMatches(Tail(matching),
                  Match(sum.colorMatches + Head(matching).colorMatches,
                        sum.symbolMatches + Head(matching).symbolMatches))

(* The switch without its conditions on the sums: any number of matching  *)
(* neighbours is enough                                                    *)
validForAnyCount(count, matchResult) == count >= 1

(* The switch with "at least" in place of "exactly" *)
validForCountAtLeast(count, matchResult) ==
  CASE count = 1 -> TRUE
    [] count = 2 -> matchResult.symbolMatches >= 1 /\ matchResult.colorMatches >= 1
    [] count = 3 -> matchResult.symbolMatches >= 1 /\ matchResult.colorMatches >= 1
    [] count = 4 -> matchResult.symbolMatches >= 2 /\ matchResult.colorMatches >= 2
    [] OTHER -> FALSE

(* The switch over matching.length in getValidPositions *)
validForCount(count, matchResult) ==
  CASE count = 1 -> TRUE
    [] count = 2 -> matchResult.symbolMatches = 1 /\ matchResult.colorMatches = 1
    [] count = 3 -> \/ matchResult.symbolMatches = 1 /\ matchResult.colorMatches = 2
                    \/ matchResult.symbolMatches = 2 /\ matchResult.colorMatches = 1
    [] count = 4 -> matchResult.symbolMatches = 2 /\ matchResult.colorMatches = 2
    [] OTHER -> FALSE

(* The body of the loop without the test of matching.length and without   *)
(* the switch: a position is valid when nothing around it is NotMatching   *)
isMatchingPosition(boardTiles, stone, pos) ==
  LET matchResults == getMatchResults(boardTiles, stone, pos)
  IN  \A i \in 1..Len(matchResults) : matchResults[i].type # "NotMatching"

(* The body of the double loop of getValidPositions for one position *)
isValidPosition(boardTiles, stone, pos) ==
  LET matchResults == getMatchResults(boardTiles, stone, pos)
      isMatching == \A i \in 1..Len(matchResults) : matchResults[i].type # "NotMatching"
      matching == nonEmptyMatches(matchResults)
  IN  /\ isMatching
      /\ Len(matching) > 0
      /\ validForCount(Len(matching), sumMatches(matching, Match(0, 0)))

(* getValidPositions offering every empty cell when there is no next stone *)
validOrEmptyPositions(boardTiles, stone) ==
  IF stone # NoStone
    THEN SelectSeq(AllPositions, LAMBDA pos: isValidPosition(boardTiles, stone, pos))
    ELSE SelectSeq(AllPositions, LAMBDA pos: boardTiles[pos.x][pos.y] = EmptyTile)

getValidPositions(boardTiles, stone) ==
  IF stone # NoStone
    THEN SelectSeq(AllPositions, LAMBDA pos: isValidPosition(boardTiles, stone, pos))
    ELSE <<>>

isBeyond(position) ==
  \/ position.y = 0 \/ position.y = BOARD_HEIGHT - 1
  \/ position.x = 0 \/ position.x = BOARD_WIDTH - 1

(* newGame for given results of its randomInt calls: the record it returns *)
newGameFrom(placedDraws, stackDraws) ==
  CHOOSE g \in
    {[board |-> [tiles |-> boardTiles, nextStone |-> popped(shuffled)],
      stoneStack |-> afterPop(shuffled),
      score |-> 0,
      fourWays |-> 0,
      showHint |-> FALSE,
      validPositions |-> getValidPositions(boardTiles, popped(shuffled))] :
       <<boardTiles, shuffled>> \in
         {<<initialTiles(placedStones),
            shuffle(fillStack(placedStones), stackDraws)>> :
            placedStones \in {generatePlacedStones(placedDraws)}}} : TRUE

(* newGame for one outcome d of the random draws *)
newGame(d) == newGameFrom(anchorDraws[d], shuffleDraws[d])

(* The games newGame returns, one for each outcome of the random draws *)
newGames == [d \in Deals |-> newGame(d)]

------------------------------------------------------------------------------
(* The session: initGame, the showHint timer callback and the click handler *)

(* The Game object as a record of the variables *)
game ==
  [tiles |-> tiles, nextStone |-> nextStone, stoneStack |-> stoneStack,
   validPositions |-> validPositions, score |-> score, fourWays |-> fourWays,
   showHint |-> showHint]

setGame(newer) ==
  \E g \in {newer} :
  /\ tiles' = g.tiles
  /\ nextStone' = g.nextStone
  /\ stoneStack' = g.stoneStack
  /\ validPositions' = g.validPositions
  /\ score' = g.score
  /\ fourWays' = g.fourWays
  /\ showHint' = g.showHint

noCall == [op |-> "initGame", position |-> Position2D(0, 0), accepted |-> FALSE,
           count |-> 0, reset |-> FALSE, bonus |-> 0, before |-> <<0, 0, 0>>]

(* The three images of loadAssets, in the order of its loadImage calls *)
imageNames == <<"Background.png", "Tileset.png", "Statusarea.png">>

Images == 1..Len(imageNames)

(* The page once initGame has run to its end: the context exists, every    *)
(* image has fired load, doMove is registered and nothing was alerted      *)
playingPage ==
  [ctx |-> TRUE, images |-> [i \in Images |-> "loaded"], loads |-> Len(imageNames),
   phase |-> "playing", session |-> TRUE, handler |-> TRUE, alerted |-> FALSE]

Init ==
  /\ page = playingPage
  /\ \E d \in Deals :
       \E g \in {newGames[d]} :
         /\ tiles = g.board.tiles
         /\ nextStone = g.board.nextStone
         /\ stoneStack = g.stoneStack
         /\ validPositions = g.validPositions
         /\ score = g.score
         /\ fourWays = g.fourWays
         /\ showHint = g.showHint
         /\ timers = 1
         /\ gameOver = FALSE
         /\ bonusAdds = 0
         /\ deal = d
         /\ last = noCall

(* showHint also recomputing the valid positions as for no next stone *)
hintShownClearing(g) == [g EXCEPT !.showHint = TRUE, !.validPositions = <<>>]

(* const showHint = () => { game.showHint = true, draw(ctx, game) } *)
hintShown(g) == [g EXCEPT !.showHint = TRUE]

showHintTimer ==
  /\ timers > 0
  /\ timers' = timers - 1
  /\ setGame(hintShown(game))
  /\ gameOver' = FALSE
  /\ last' = [noCall EXCEPT !.op = "showHint"]
  /\ UNCHANGED <<bonusAdds, deal, page>>

(* boardPosition of a click at a canvas pixel *)
toBoardPosition(position) ==
  Position2D(position.x \div TILE_WIDTH, position.y \div TILE_HEIGHT)

isMember(positions, pos) == \E i \in 1..Len(positions) : positions[i] = pos

(* The switch of doMove taking points away *)
scoredDown(g, count) == [g EXCEPT !.score = g.score - count]

(* The switch over matches.length in doMove, for an interior position *)
scored(g, count) ==
  CASE count = 1 -> [g EXCEPT !.score = g.score + 1]
    [] count = 2 -> [g EXCEPT !.score = g.score + 2]
    [] count = 3 -> [g EXCEPT !.score = g.score + 4]
    [] count = 4 ->
         LET n == g.fourWays + 1
             fourwayBonus == IF n <= Len(fourwayBonuses) THEN fourwayBonuses[n] ELSE 0
         IN  [g EXCEPT !.score = g.score + 8 + fourwayBonus, !.fourWays = n]
    [] OTHER -> g

matchCount(g, boardPosition) ==
  Len(nonEmptyMatches(getMatchResults(g.tiles, g.nextStone, boardPosition)))

(* The switch of doMove without the isBeyond test around it *)
scoredAnywhere(g, boardPosition) == scored(g, matchCount(g, boardPosition))

scoredAt(g, boardPosition) ==
  IF ~isBeyond(boardPosition) THEN scored(g, matchCount(g, boardPosition)) ELSE g

(* The placement drawing the next stone from the front of the stack *)
placedFromFront(g, boardPosition) ==
  [g EXCEPT !.tiles[boardPosition.x][boardPosition.y] = g.nextStone,
            !.nextStone = IF g.stoneStack = <<>> THEN NoStone ELSE Head(g.stoneStack),
            !.stoneStack = IF g.stoneStack = <<>> THEN <<>> ELSE Tail(g.stoneStack),
            !.showHint = FALSE]

(* The placement without the pop: the stone placed stays the next stone *)
placedWithoutPop(g, boardPosition) ==
  [g EXCEPT !.tiles[boardPosition.x][boardPosition.y] = g.nextStone,
            !.showHint = FALSE]

(* board.tiles[x][y] = nextStone; board.nextStone = game.stoneStack.pop(); *)
(* game.showHint = false *)
placed(g, boardPosition) ==
  [g EXCEPT !.tiles[boardPosition.x][boardPosition.y] = g.nextStone,
            !.nextStone = popped(g.stoneStack),
            !.stoneStack = afterPop(g.stoneStack),
            !.showHint = FALSE]

(* doMove without its refresh of game.validPositions *)
notRefreshed(g) == g

(* game.validPositions = getValidPositions(board) *)
refreshed(g) == [g EXCEPT !.validPositions = getValidPositions(g.tiles, g.nextStone)]

(* The branch of doMove taken for a valid position *)
moved(g, boardPosition) == refreshed(placed(scoredAt(g, boardPosition), boardPosition))

(* The game-over test also taken when no position is valid *)
isGameOverOrStuck(g) ==
  g.nextStone = NoStone \/ Len(g.stoneStack) = 0 \/ g.validPositions = <<>>

isGameOver(g) == g.nextStone = NoStone \/ Len(g.stoneStack) = 0

(* stonesLeftBonus[game.stoneStack.length], 0 for undefined *)
finishBonus(g) ==
  IF Len(g.stoneStack) < Len(stonesLeftBonus)
    THEN stonesLeftBonus[Len(g.stoneStack) + 1] ELSE 0

finished(g) ==
  IF isGameOver(g) THEN [g EXCEPT !.score = g.score + finishBonus(g)] ELSE g

(* The rectangle of the New button, loadAssets; twice the coordinates, as  *)
(* left and right are half pixels for an odd text width.                   *)
newButton2 ==
  LET left2 == 2 * CanvasWidth - (CanvasWidth - TILE_WIDTH * BOARD_WIDTH) - 16 - NewTextWidth
      top == NewBaseline - 24
  IN  [left |-> left2, top |-> 2 * top,
       right |-> left2 + 2 * NewTextWidth + 32, bottom |-> 2 * (top + 24 + 8)]

hitsNewButton(position) ==
  /\ 2 * position.x >= newButton2.left
  /\ 2 * position.x <= newButton2.right
  /\ 2 * position.y >= newButton2.top
  /\ 2 * position.y <= newButton2.bottom

(* The reset without its assignments to score and fourWays *)
resetBoardOnly(g, fresh) ==
  [g EXCEPT !.tiles = fresh.board.tiles, !.nextStone = fresh.board.nextStone,
            !.stoneStack = fresh.stoneStack, !.validPositions = fresh.validPositions,
            !.showHint = FALSE]

(* const _ = newGame(assets); game.board = _.board ... game.showHint = false *)
resetTo(g, fresh) ==
  [g EXCEPT !.tiles = fresh.board.tiles, !.nextStone = fresh.board.nextStone,
            !.stoneStack = fresh.stoneStack, !.validPositions = fresh.validPositions,
            !.fourWays = 0, !.score = 0, !.showHint = FALSE]

(* nextStone && isValidPosition, but only while the hint is shown *)
clickAcceptedWhenHinted(g, boardPosition) ==
  g.showHint /\ g.nextStone # NoStone /\ isMember(g.validPositions, boardPosition)

(* nextStone && isValidPosition *)
clickAccepted(g, boardPosition) ==
  g.nextStone # NoStone /\ isMember(g.validPositions, boardPosition)

(* The game after the first if of doMove *)
afterPlacement(g, boardPosition) ==
  IF clickAccepted(g, boardPosition) THEN moved(g, boardPosition) ELSE g

(* The game after the first two ifs of doMove, before the New button test *)
afterClick(g, position) == finished(afterPlacement(g, toBoardPosition(position)))

doMove(position) ==
  \E boardPosition \in {toBoardPosition(position)} :
  \E accepted \in {clickAccepted(game, boardPosition)} :
  \E g1 \in {afterPlacement(game, boardPosition)} :
  \E g2 \in {finished(g1)} :
  \E reset \in {hitsNewButton(position)} :
  \E d \in IF reset THEN Deals ELSE {deal} :
    /\ accepted => timers < MaxTimers
    /\ (g2.score > g1.score /\ ~reset) => bonusAdds < MaxBonusAdds
    /\ setGame(IF reset THEN resetTo(g2, newGames[d]) ELSE g2)
    /\ deal' = d
    /\ timers' = IF accepted THEN timers + 1 ELSE timers
    /\ gameOver' = IF reset THEN FALSE
                   ELSE IF isGameOver(g1) THEN TRUE
                   ELSE IF accepted THEN FALSE ELSE gameOver
    /\ bonusAdds' = IF reset THEN 0
                    ELSE IF g2.score > g1.score THEN bonusAdds + 1 ELSE bonusAdds
    /\ last' = [op |-> "doMove", position |-> boardPosition, accepted |-> accepted,
                count |-> IF accepted THEN matchCount(game, boardPosition) ELSE 0,
                reset |-> reset, bonus |-> g2.score - g1.score,
                before |-> <<score, fourWays, Len(stoneStack)>>]
    /\ UNCHANGED page

(* The tile coordinates one call of getMatchResults addresses besides the   *)
(* position itself: the lookups of its four guarded ifs                    *)
matchLookupsUnguarded(position) ==
  {Position2D(position.x - 1, position.y), Position2D(position.x + 1, position.y),
   Position2D(position.x, position.y - 1), Position2D(position.x, position.y + 1)}

matchLookups(position) ==
  (IF position.x > 0 THEN {Position2D(position.x - 1, position.y)} ELSE {}) \cup
  (IF position.x < BOARD_WIDTH - 1 THEN {Position2D(position.x + 1, position.y)} ELSE {}) \cup
  (IF position.y > 0 THEN {Position2D(position.x, position.y - 1)} ELSE {}) \cup
  (IF position.y < BOARD_HEIGHT - 1 THEN {Position2D(position.x, position.y + 1)} ELSE {})

(* The tile coordinates a call of doMove addresses: none when the click is *)
(* rejected; for an accepted click the position (getMatchResults, the tile *)
(* write) with its lookups, and the positions and lookups of the loops of  *)
(* getValidPositions                                                      *)
tilesAddressed(boardPosition, accepted) ==
  IF accepted
    THEN {boardPosition} \cup matchLookups(boardPosition) \cup
         UNION {{AllPositions[i]} \cup matchLookups(AllPositions[i]) :
                  i \in 1..Len(AllPositions)}
    ELSE {}

------------------------------------------------------------------------------
(* The clicks of the environment *)

centreOf(cell) ==
  Position2D(cell[1] * TILE_WIDTH + TILE_WIDTH \div 2, cell[2] * TILE_HEIGHT + TILE_HEIGHT \div 2)

stonesOnBoard ==
  Cardinality({i \in 1..Len(AllPositions) :
                 tiles[AllPositions[i].x][AllPositions[i].y].type = "stone"})

(* The click the script of the current deal asks for after the moves made *)
scriptClicks ==
  LET k == stonesOnBoard - NumColors + 1
  IN  IF k <= Len(clickScript[deal]) THEN {centreOf(clickScript[deal][k])} ELSE {}

(* Clicks tried in every state: an anchor cell, two interior cells no script *)
(* fills, the status area right of the board, and the New button           *)
probeClicks ==
  {centreOf(<<0, 0>>), centreOf(<<10, 1>>), centreOf(<<2, 2>>),
   Position2D(TILE_WIDTH * BOARD_WIDTH + 10, 100),
   Position2D(CanvasWidth - (CanvasWidth - TILE_WIDTH * BOARD_WIDTH) \div 2, NewBaseline - 8)}

Clicks == scriptClicks \cup probeClicks

(* canvas click events reach doMove once addMouseClickEventHandler has run *)
click == page.handler /\ \E position \in Clicks : doMove(position)

Next == click \/ showHintTimer

Spec == Init /\ [][Next]_vars

------------------------------------------------------------------------------
(* Synthetic boards: getValidPositions applied to boards that hold stones   *)
(* only around one cell, for every choice of those stones and of the next   *)
(* stone among the first NumKinds stones of kindList.                      *)

NumKinds == 4

(* The stones of two colors and two symbols first: relative to any one of  *)
(* them the others are the same-color, the same-symbol and the conflicting *)
(* stone                                                                   *)
kindList ==
  <<Stone(0, 0), Stone(0, 1), Stone(1, 0), Stone(1, 1), Stone(2, 2), Stone(2, 0)>>

kindStones == {kindList[i] : i \in 1..NumKinds}

(* A corner cell, an edge cell and an interior cell *)
centreCells == {Position2D(0, 0), Position2D(0, 3), Position2D(4, 2)}

cells == {AllPositions[i] : i \in 1..Len(AllPositions)}

neighbours(pos) ==
  {q \in {Position2D(pos.x, pos.y - 1), Position2D(pos.x + 1, pos.y),
          Position2D(pos.x, pos.y + 1), Position2D(pos.x - 1, pos.y)} : inGrid(q)}

boardAround(centre, around) ==
  [x \in 0..(BOARD_WIDTH - 1) |->
    [y \in 0..(BOARD_HEIGHT - 1) |->
      IF Position2D(x, y) \in neighbours(centre)
        THEN around[Position2D(x, y)] ELSE EmptyTile]]

InitBoards ==
  \E centre \in centreCells :
  \E around \in [neighbours(centre) -> kindStones \cup {EmptyTile}] :
  \E stone \in kindStones :
    /\ tiles = boardAround(centre, around)
    /\ nextStone = stone
    /\ stoneStack = <<>>
    /\ validPositions = <<>>
    /\ score = 0
    /\ fourWays = 0
    /\ showHint = FALSE
    /\ timers = 0
    /\ gameOver = FALSE
    /\ bonusAdds = 0
    /\ deal = 1
    /\ last = [noCall EXCEPT !.op = "board", !.position = centre]
    /\ page = playingPage

findValidPositions ==
  /\ last.op = "board"
  /\ setGame(refreshed(game))
  /\ last' = [last EXCEPT !.op = "getValidPositions"]
  /\ UNCHANGED <<timers, gameOver, bonusAdds, deal, page>>

NextBoards == findValidPositions

SpecBoards == InitBoards /\ [][NextBoards]_vars

------------------------------------------------------------------------------
(* Deals: newGame for NumOutcomes outcomes of generatePlacedStones, spread *)
(* evenly over all its outcomes, each with the shuffle of one of the       *)
(* deals; the hint timer of initGame is pending.                           *)

NumOutcomes == 500

(* randomInt(maxIndex) is below maxIndex = colors.length, which is         *)
(* NumColors + 1 - k in the k-th round of the loop of generatePlacedStones; *)
(* each round makes two calls                                              *)
drawRange(i) == NumColors + 1 - (i + 1) \div 2

(* The outcomes of the twelve calls, numbered in the mixed radix of their  *)
(* ranges: drawWeight(i) outcomes share the results of the calls 1..i      *)
RECURSIVE drawWeight(_)
drawWeight(i) ==
  IF i = 2 * NumColors THEN 1 ELSE drawRange(i + 1) * drawWeight(i + 1)

placedDrawsOf(outcome) ==
  [i \in 1..(2 * NumColors) |-> (outcome \div drawWeight(i)) % drawRange(i)]

(* Every 7919th outcome, 7919 being prime to the number of outcomes *)
placedDrawsChoices ==
  {placedDrawsOf((n * 7919) % drawWeight(0)) : n \in 0..(NumOutcomes - 1)}

InitDeals ==
  \E placedDraws \in placedDrawsChoices :
  \E d \in Deals :
  \E g \in {newGameFrom(placedDraws, shuffleDraws[d])} :
    /\ tiles = g.board.tiles
    /\ nextStone = g.board.nextStone
    /\ stoneStack = g.stoneStack
    /\ validPositions = g.validPositions
    /\ score = g.score
    /\ fourWays = g.fourWays
    /\ showHint = g.showHint
    /\ timers = 1
    /\ gameOver = FALSE
    /\ bonusAdds = 0
    /\ deal = d
    /\ last = [noCall EXCEPT !.op = "newGame"]
    /\ page = playingPage

NextDeals == showHintTimer

SpecDeals == InitDeals /\ [][NextDeals]_vars

------------------------------------------------------------------------------
(* Shuffles: shuffle applied to every array of MaxLen stones at most, for  *)
(* every outcome of its randomInt calls.                                   *)

MaxLen == 4

(* A random index that may be max itself *)
randomIntInclusive(max) == 0..max

(* Math.floor(Math.random() * max): any of 0 .. max - 1 *)
randomInt(max) == 0..(max - 1)

(* The results of the calls randomInt(i) for i = n - 1 down to 1, in call  *)
(* order, for an array of length n                                         *)
stackDrawsChoices(n) ==
  {draws \in [1..(n - 1) -> 0..(n - 2)] :
     \A k \in 1..(n - 1) : draws[k] \in randomInt(n - k)}

emptyBoard ==
  [x \in 0..(BOARD_WIDTH - 1) |-> [y \in 0..(BOARD_HEIGHT - 1) |-> EmptyTile]]

InitShuffle ==
  \E n \in 0..MaxLen :
  \E array \in [1..n -> kindStones] :
    /\ stoneStack = array
    /\ tiles = emptyBoard
    /\ nextStone = NoStone
    /\ validPositions = <<>>
    /\ score = 0
    /\ fourWays = 0
    /\ showHint = FALSE
    /\ timers = 0
    /\ gameOver = FALSE
    /\ bonusAdds = 0
    /\ deal = 1
    /\ last = [noCall EXCEPT !.op = "array"]
    /\ page = playingPage

shuffleStack ==
  /\ last.op = "array"
  /\ \E draws \in stackDrawsChoices(Len(stoneStack)) :
       /\ stoneStack' = shuffle(stoneStack, draws)
       /\ last' = [op |-> "shuffle", position |-> Position2D(0, 0), accepted |-> FALSE,
                   count |-> 0, reset |-> FALSE, bonus |-> 0,
                   before |-> stoneStack, draws |-> draws]
  /\ UNCHANGED <<tiles, nextStone, validPositions, score, fourWays, showHint,
                 timers, gameOver, bonusAdds, deal, page>>

NextShuffle == shuffleStack

SpecShuffle == InitShuffle /\ [][NextShuffle]_vars

------------------------------------------------------------------------------
(* Startup: window.onload = initGame, the load and error events of the     *)
(* three images, and the session initGame starts once all have loaded.     *)

(* window.onload has not fired: no context asked for, no image requested,  *)
(* no game object, no timer, no handler                                    *)
InitStartup ==
  /\ \E ctx \in BOOLEAN :
       page = [ctx |-> ctx, images |-> [i \in Images |-> "none"], loads |-> 0,
               phase |-> "onload", session |-> FALSE, handler |-> FALSE,
               alerted |-> FALSE]
  /\ tiles = emptyBoard
  /\ nextStone = NoStone
  /\ stoneStack = <<>>
  /\ validPositions = <<>>
  /\ score = 0
  /\ fourWays = 0
  /\ showHint = FALSE
  /\ timers = 0
  /\ gameOver = FALSE
  /\ bonusAdds = 0
  /\ deal = 1
  /\ last = noCall

(* initGame up to its await: the alert and return for no context, else the *)
(* three loadImage calls of loadAssets                                     *)
initGame ==
  /\ page.phase = "onload"
  /\ page' = IF ~page.ctx
              THEN [page EXCEPT !.alerted = TRUE, !.phase = "unsupported"]
              ELSE [page EXCEPT !.images = [i \in Images |-> "loading"],
                                !.loads = Len(imageNames), !.phase = "awaiting"]
  /\ UNCHANGED <<tiles, nextStone, stoneStack, validPositions, score, fourWays,
                 showHint, timers, gameOver, bonusAdds, deal, last>>

(* The rest of initGame after await loadAssets(ctx): newGame, the hint     *)
(* timer and addMouseClickEventHandler                                     *)
startGame(images) ==
  \E d \in Deals :
    \E g \in {newGames[d]} :
      /\ tiles' = g.board.tiles
      /\ nextStone' = g.board.nextStone
      /\ stoneStack' = g.stoneStack
      /\ validPositions' = g.validPositions
      /\ score' = g.score
      /\ fourWays' = g.fourWays
      /\ showHint' = g.showHint
      /\ timers' = 1
      /\ deal' = d
      /\ page' = [page EXCEPT !.images = images, !.phase = "playing",
                              !.session = TRUE, !.handler = TRUE]
      /\ UNCHANGED <<gameOver, bonusAdds, last>>

(* The load event of one image resolves its promise; with the last of the  *)
(* three Promise.all resolves and initGame goes on behind its await        *)
imageLoad(i) ==
  /\ page.images[i] = "loading"
  /\ \E images \in {[page.images EXCEPT ![i] = "loaded"]} :
       IF page.phase = "awaiting" /\ \A j \in Images : images[j] = "loaded"
         THEN startGame(images)
         ELSE /\ page' = [page EXCEPT !.images = images]
              /\ UNCHANGED <<tiles, nextStone, stoneStack, validPositions, score,
                             fourWays, showHint, timers, gameOver, bonusAdds, deal,
                             last>>

(* The error event of one image rejects its promise; the first rejection   *)
(* rejects Promise.all, the await in loadAssets and the await in initGame  *)
(* throw, and the promise of initGame is rejected with nothing to catch it *)
imageError(i) ==
  /\ page.images[i] = "loading"
  /\ page' = [page EXCEPT !.images[i] = "failed",
                          !.phase = IF @ = "awaiting" THEN "rejected" ELSE @]
  /\ UNCHANGED <<tiles, nextStone, stoneStack, validPositions, score, fourWays,
                 showHint, timers, gameOver, bonusAdds, deal, last>>

NextStartup ==
  \/ initGame
  \/ \E i \in Images : imageLoad(i)
  \/ \E i \in Images : imageError(i)
  \/ click
  \/ showHintTimer

SpecStartup == InitStartup /\ [][NextStartup]_vars

------------------------------------------------------------------------------
(* What the claims speak of, read off the board itself *)

tileAt(pos) == tiles[pos.x][pos.y]
occupied(pos) == tileAt(pos).type = "stone"
sameColor(pos) == occupied(pos) /\ tileAt(pos).color = nextStone.color
sameSymbol(pos) == occupied(pos) /\ tileAt(pos).symbol = nextStone.symbol
conflicts(pos) == occupied(pos) /\ ~sameColor(pos) /\ ~sameSymbol(pos)
occupiedAround(pos) == {q \in neighbours(pos) : occupied(q)}
nAt(pos) == Cardinality({q \in neighbours(pos) : sameColor(q) \/ sameSymbol(q)})
cAt(pos) == Cardinality({q \in neighbours(pos) : sameColor(q)})
sAt(pos) == Cardinality({q \in neighbours(pos) : sameSymbol(q)})
hasConflict(pos) == \E q \in neighbours(pos) : conflicts(q)
cachedValid(pos) == \E i \in 1..Len(validPositions) : validPositions[i] = pos
computed == last.op = "getValidPositions"
shuffled == last.op = "shuffle"
copiesIn(array, stone) == Cardinality({i \in 1..Len(array) : array[i] = stone})
copiesOnBoard(stone) == Cardinality({pos \in cells : tileAt(pos) = stone})
copiesInStack(stone) ==
  Cardinality({i \in 1..Len(stoneStack) : stoneStack[i] = stone})
  + (IF nextStone = stone THEN 1 ELSE 0)
acceptedMove == last.op = "doMove" /\ last.accepted
stuck == nextStone # NoStone /\ Len(stoneStack) > 0 /\ validPositions = <<>>
indices(n) == [i \in 1..n |-> i]
(* Where each element of the shuffled array came from: shuffle applied to  *)
(* the indices of the array before, with the same draws                    *)
cameFrom == shuffle(indices(Len(last.before)), last.draws)
RECURSIVE orbit(_, _, _)
orbit(perm, i, seen) ==
  IF i \in seen THEN seen ELSE orbit(perm, perm[i], seen \cup {i})
stonesLeft == Len(stoneStack) + (IF nextStone # NoStone THEN 1 ELSE 0)
placements == stonesOnBoard - NumColors
maxPlacements == 2 * NumColors * NumSymbols - NumColors

------------------------------------------------------------------------------
(* C1: a doMove request whose board position is not in validPositions, or   *)
(* that arrives when there is no next stone, changes nothing: tiles, next   *)
(* stone, stack, score, fourWays, hint flag and validPositions stay as they *)
(* were. (Clicks on the New button, which reset the game, are set aside.)   *)
C1_RejectionChangesNothing ==
  [][(last'.op = "doMove" /\ ~last'.accepted /\ ~last'.reset) => UNCHANGED gameVars]_vars

(* C2: within one session the end-of-game bonus is added to the score at   *)
(* most once.                                                              *)
C2_BonusAddedOnce == bonusAdds <= 1

(* C3: the end-of-game bonus is added only at game end, that is, only when  *)
(* the handler leaves the stack empty and the next stone absent.            *)
C3_BonusOnlyAtGameEnd ==
  (last.op = "doMove" /\ ~last.reset /\ last.bonus > 0)
    => (nextStone = NoStone /\ Len(stoneStack) = 0)

(* C4: while a next stone exists the session is Playing: it is not reported *)
(* as game over.                                                            *)
C4_PlayingWhileNextStone == nextStone # NoStone => ~gameOver

(* C5: the cached validPositions is getValidPositions of the current tiles  *)
(* and next stone, after newGame and after every doMove, showHint and reset *)
C5_CacheIsFresh == validPositions = getValidPositions(tiles, nextStone)

(* C5 witness: a placement has just been accepted in mid-game and several  *)
(* cells are valid for the stone drawn after it                            *)
C5_Witness ==
  /\ acceptedMove
  /\ Len(stoneStack) < 40
  /\ Len(validPositions) > 1

(* C6: for an empty cell none of whose neighbours conflicts with the next  *)
(* stone, with n matching neighbours of which C share the color and S the  *)
(* symbol: the cell is in getValidPositions iff n = 1, or n = 2 and C = S  *)
(* = 1, or n = 3 and (C, S) is (2, 1) or (1, 2), or n = 4 and C = S = 2.    *)
C6_RuleTable ==
  computed =>
    \A pos \in cells :
      (~occupied(pos) /\ ~hasConflict(pos)) =>
        (cachedValid(pos) <=>
           \/ nAt(pos) = 1
           \/ nAt(pos) = 2 /\ cAt(pos) = 1 /\ sAt(pos) = 1
           \/ nAt(pos) = 3 /\ <<cAt(pos), sAt(pos)>> \in {<<2, 1>>, <<1, 2>>}
           \/ nAt(pos) = 4 /\ cAt(pos) = 2 /\ sAt(pos) = 2)

(* C6 witness: a four-way cell that is valid, beside a cell with two       *)
(* matching neighbours or more that is not                                  *)
C6_Witness ==
  /\ computed
  /\ \E pos \in cells : ~occupied(pos) /\ nAt(pos) = 4 /\ cachedValid(pos)
  /\ \E pos \in cells : ~occupied(pos) /\ ~hasConflict(pos) /\ nAt(pos) = 1 /\ cachedValid(pos)

(* C7: an empty cell with a neighbour that shares neither color nor symbol  *)
(* with the next stone is not in getValidPositions, whatever else is around *)
C7_ConflictRejects ==
  computed => \A pos \in cells : (~occupied(pos) /\ hasConflict(pos)) => ~cachedValid(pos)

(* C7 witness: an empty cell with one conflicting neighbour and three that *)
(* match the next stone                                                    *)
C7_Witness ==
  /\ computed
  /\ \E pos \in cells :
       /\ ~occupied(pos)
       /\ Cardinality({q \in neighbours(pos) : conflicts(q)}) = 1
       /\ nAt(pos) = 3

(* C8: every occupied neighbour of a valid cell with two or more occupied  *)
(* neighbours shares exactly one of color and symbol with the next stone;  *)
(* a valid cell next to a stone identical to the next stone has no other   *)
(* occupied neighbour.                                                     *)
C8_OneAttributeEach ==
  computed =>
    \A pos \in cells :
      cachedValid(pos) =>
        /\ Cardinality(occupiedAround(pos)) >= 2 =>
             \A q \in occupiedAround(pos) : sameColor(q) # sameSymbol(q)
        /\ (\E q \in occupiedAround(pos) : tileAt(q) = nextStone) =>
             Cardinality(occupiedAround(pos)) = 1

(* C8 witness: a valid cell with three occupied neighbours and a valid     *)
(* cell with two                                                           *)
C8_Witness ==
  /\ computed
  /\ \E pos \in cells : cachedValid(pos) /\ Cardinality(occupiedAround(pos)) = 3
  /\ \E pos \in cells : cachedValid(pos) /\ Cardinality(occupiedAround(pos)) = 2

(* C9: an accepted placement on an interior cell with n = 1, 2 or 3        *)
(* matching neighbours increases the score by exactly 1, 2 or 4 and leaves *)
(* fourWays unchanged.                                                     *)
C9_InteriorScore ==
  (acceptedMove /\ ~isBeyond(last.position) /\ last.count \in 1..3) =>
    /\ score = last.before[1] + <<1, 2, 4>>[last.count]
    /\ fourWays = last.before[2]

(* C10: an accepted placement with four matching neighbours increases      *)
(* fourWays by exactly 1 and the score by 8 plus the bonus of the table for *)
(* the new fourWays value k when k <= 12, and by exactly 8 when k > 12.     *)
C10_FourWayScore ==
  (acceptedMove /\ last.count = 4) =>
    /\ fourWays = last.before[2] + 1
    /\ score = last.before[1] + 8 +
         (IF fourWays <= 12
            THEN <<25, 50, 100, 200, 400, 600, 800, 1000, 5000, 10000, 25000, 50000>>[fourWays]
            ELSE 0)

(* C11: a placement on a border cell that is in validPositions is         *)
(* accepted: the cell holds the stone that was next, the next stone is the *)
(* one popped off the stack, the placement itself adds nothing to the      *)
(* score (which changes by the finish bonus of the game-over block only)   *)
(* and fourWays is unchanged.                                              *)
C11_BorderPlacement ==
  [][(last'.op = "doMove" /\ last'.accepted /\ isBeyond(last'.position)) =>
       /\ nextStone # NoStone
       /\ tiles'[last'.position.x][last'.position.y] = nextStone
       /\ nextStone' = IF stoneStack = <<>> THEN NoStone ELSE stoneStack[Len(stoneStack)]
       /\ Len(stoneStack') = IF stoneStack = <<>> THEN 0 ELSE Len(stoneStack) - 1
       /\ score' = score + last'.bonus
       /\ fourWays' = fourWays]_vars

(* C11 witness: a stone was placed on a border cell with two matching      *)
(* neighbours or more, and the stack is not empty afterwards               *)
C11_Witness ==
  /\ acceptedMove
  /\ isBeyond(last.position)
  /\ last.count >= 2
  /\ stoneStack # <<>>
  /\ score = last.before[1]

(* C12: within one session score and fourWays never decrease: every      *)
(* doMove that does not reset the game and every showHint leaves each of   *)
(* them equal or larger.                                                   *)
C12_ScoreNeverDecreases ==
  [][~last'.reset => (score' >= score /\ fourWays' >= fourWays)]_vars

(* C12 witness: a four-way placement late in the game has just raised both *)
C12_Witness ==
  /\ acceptedMove
  /\ Len(stoneStack) < 30
  /\ score > last.before[1]
  /\ fourWays > last.before[2]

(* C13: within one session an occupied cell keeps its stone: no doMove     *)
(* that does not reset the game and no showHint empties or overwrites it,  *)
(* and an occupied cell is never in validPositions.                        *)
C13_OccupiedStays ==
  /\ [](\A pos \in cells : cachedValid(pos) => ~occupied(pos))
  /\ [][~last'.reset =>
          \A pos \in cells : occupied(pos) => tiles'[pos.x][pos.y] = tileAt(pos)]_vars

(* C13 witness: a stone has just been placed on a board that holds forty   *)
(* stones or more, next to stones the new next stone matches               *)
C13_Witness ==
  /\ acceptedMove
  /\ stonesOnBoard >= 40
  /\ \E pos \in cells : occupied(pos) /\ (sameColor(pos) \/ sameSymbol(pos))
  /\ validPositions # <<>>

(* C14: newGame yields exactly 72 stones across the six anchors, the     *)
(* stack and the next stone, each of the 36 (color, symbol) pairs exactly  *)
(* twice: stack plus next stone hold one copy of each anchor pair and two  *)
(* copies of every other pair.                                             *)
C14_SeventyTwoStones ==
  last.op = "newGame" =>
    /\ Cardinality({pos \in cells : occupied(pos)}) = 6
    /\ nextStone # NoStone
    /\ Len(stoneStack) + 1 + 6 = 72
    /\ \A c \in 0..5 : \A s \in 0..5 :
         /\ copiesOnBoard(Stone(c, s)) <= 1
         /\ copiesOnBoard(Stone(c, s)) + copiesInStack(Stone(c, s)) = 2

(* C14 witness: a new game whose next stone is the second copy of one of   *)
(* the anchors                                                             *)
C14_Witness ==
  /\ last.op = "newGame"
  /\ copiesOnBoard(nextStone) = 1

(* C15: generatePlacedStones returns exactly 6 stones, with pairwise       *)
(* distinct colors and pairwise distinct symbols: the anchors of a new     *)
(* game use each of the colors 0..5 and each of the symbols 0..5 once.     *)
C15_AnchorsDistinct ==
  last.op = "newGame" =>
    /\ Cardinality({pos \in cells : occupied(pos)}) = 6
    /\ \A c \in 0..5 : Cardinality({pos \in cells : occupied(pos) /\ tileAt(pos).color = c}) = 1
    /\ \A s \in 0..5 : Cardinality({pos \in cells : occupied(pos) /\ tileAt(pos).symbol = s}) = 1

(* C15 witness: a new game with an anchor whose color and symbol numbers   *)
(* agree and an anchor of the last color with the first symbol             *)
C15_Witness ==
  /\ last.op = "newGame"
  /\ \E pos \in cells : occupied(pos) /\ tileAt(pos).color = tileAt(pos).symbol
  /\ \E pos \in cells : occupied(pos) /\ tileAt(pos).color = 5 /\ tileAt(pos).symbol = 0

(* C16: after any sequence of moves a reset through the New button leaves *)
(* score = 0, fourWays = 0, the hint flag false, a freshly generated board *)
(* of six anchors, a stack of length 65 and a next stone; board, stack and *)
(* valid positions are those of a newGame result.                          *)
C16_ResetIsFresh ==
  (last.op = "doMove" /\ last.reset) =>
    /\ score = 0
    /\ fourWays = 0
    /\ showHint = FALSE
    /\ Len(stoneStack) = 65
    /\ nextStone # NoStone
    /\ Cardinality({pos \in cells : occupied(pos)}) = 6
    /\ \E d \in Deals :
         /\ tiles = newGames[d].board.tiles
         /\ nextStone = newGames[d].board.nextStone
         /\ stoneStack = newGames[d].stoneStack
         /\ validPositions = newGames[d].validPositions

(* C16 witness: the New button was clicked after the stack had run empty   *)
(* and the finish bonus had been added, four-ways included                 *)
C16_Witness ==
  /\ last.op = "doMove"
  /\ last.reset
  /\ last.before[1] > 1000
  /\ last.before[2] > 0
  /\ last.before[3] = 0

(* C17: at most one hint timer is pending at any time.                     *)
C17_OneTimerPending == timers <= 1

(* C18: the hint flag is set to true only by the timer of the most recent  *)
(* placement or game start, never by one scheduled before it: when the     *)
(* showHint callback runs it is the only pending timer (timers of equal    *)
(* delay run in the order they were scheduled) and the handler before it   *)
(* was not a reset.                                                        *)
C18_NoStaleHint ==
  [][timers' = timers - 1 => (timers = 1 /\ ~last.reset)]_vars

(* C19: after every game start, the initial one and every reset through    *)
(* the New button, a hint timer is pending.                                *)
C19_TimerAfterGameStart ==
  (last.op = "initGame" \/ (last.op = "doMove" /\ last.reset)) => timers > 0

(* C20: the showHint timer callback changes only the hint flag: tiles,     *)
(* next stone, stack, score, fourWays and validPositions are unchanged.    *)
C20_HintChangesFlagOnly ==
  [][timers' = timers - 1 =>
       /\ showHint'
       /\ UNCHANGED <<tiles, nextStone, stoneStack, score, fourWays, validPositions>>]_vars

(* C20 witness: the callback has run in mid-game, with stones placed,      *)
(* points scored and valid positions cached                                *)
C20_Witness ==
  /\ last.op = "showHint"
  /\ showHint
  /\ stonesOnBoard > 20
  /\ score > 0
  /\ validPositions # <<>>

(* C21: an accepted placement at position p puts the previous next stone  *)
(* on cell p and leaves every other cell unchanged, makes the former last  *)
(* element of the stack the new next stone (absent if the stack was        *)
(* empty), shortens the stack by that one element keeping the order of the *)
(* rest, and sets the hint flag to false.                                  *)
C21_PlacementEffect ==
  [][(last'.op = "doMove" /\ last'.accepted) =>
       /\ tiles' = [tiles EXCEPT ![last'.position.x][last'.position.y] = nextStone]
       /\ tiles[last'.position.x][last'.position.y] = EmptyTile
       /\ nextStone' = IF stoneStack = <<>> THEN NoStone ELSE stoneStack[Len(stoneStack)]
       /\ stoneStack' = IF stoneStack = <<>> THEN <<>>
                        ELSE [i \in 1..(Len(stoneStack) - 1) |-> stoneStack[i]]
       /\ showHint' = FALSE]_vars

(* C21 witness: the last stone has just been placed: the stack was empty   *)
(* before the placement and no next stone is left                          *)
C21_Witness ==
  /\ acceptedMove
  /\ last.before[3] = 0
  /\ nextStone = NoStone
  /\ stonesOnBoard = 72

C25_AnchorCells ==
  last.op = "newGame" =>
    /\ \A pos \in cells :
         IF <<pos.x, pos.y>> \in {<<0, 0>>, <<11, 0>>, <<0, 7>>, <<11, 7>>, <<6, 4>>, <<5, 3>>}
           THEN occupied(pos)
           ELSE tileAt(pos) = EmptyTile
    /\ Cardinality({tileAt(pos) : pos \in {q \in cells : occupied(q)}}) = 6
    /\ Cardinality({pos \in cells : tileAt(pos) = EmptyTile}) = 90

(* C25 witness: a new game in which the two centre anchors share neither   *)
(* color nor symbol with the next stone                                    *)
C25_Witness ==
  /\ last.op = "newGame"
  /\ conflicts(Position2D(6, 4))
  /\ conflicts(Position2D(5, 3))

(* C26: an Empty neighbour is neutral: for every board and next stone the *)
(* number of matches the code counts at an empty cell (in getValidPositions *)
(* and in the scoring switch) and its sums of color and symbol matches are *)
(* n, C and S counted over the occupied neighbours alone, and a cell whose *)
(* neighbours are all Empty is never valid.                                *)
C26_EmptyIsNeutral ==
  computed =>
    \A pos \in cells :
      ~occupied(pos) =>
        /\ matchCount(game, pos) = nAt(pos)
        /\ sumMatches(nonEmptyMatches(getMatchResults(tiles, nextStone, pos)), Match(0, 0))
             = Match(cAt(pos), sAt(pos))
        /\ occupiedAround(pos) = {} => ~cachedValid(pos)

(* C26 witness: a valid cell with one occupied neighbour and three empty   *)
(* ones, on a board with an empty cell that has no occupied neighbour      *)
C26_Witness ==
  /\ computed
  /\ \E pos \in cells :
       /\ cachedValid(pos)
       /\ Cardinality(occupiedAround(pos)) = 1
       /\ Cardinality(neighbours(pos)) = 4
  /\ \E pos \in cells : ~occupied(pos) /\ occupiedAround(pos) = {} /\ ~cachedValid(pos)

(* C27: for the next stone and every stone on the board, match returns     *)
(* NotMatching exactly when the two share neither color nor symbol;        *)
(* otherwise a Match whose colorMatches is 1 iff the colors are equal and  *)
(* whose symbolMatches is 1 iff the symbols are equal, never both 0.       *)
C27_MatchOfStones ==
  computed =>
    \A q \in cells :
      occupied(q) =>
        LET m == match(nextStone, tileAt(q))
            sameC == tileAt(q).color = nextStone.color
            sameS == tileAt(q).symbol = nextStone.symbol
        IN  /\ m.type = "NotMatching" <=> (~sameC /\ ~sameS)
            /\ m.type # "NotMatching" =>
                 /\ m.type = "Match"
                 /\ m.colorMatches = (IF sameC THEN 1 ELSE 0)
                 /\ m.symbolMatches = (IF sameS THEN 1 ELSE 0)
                 /\ m.colorMatches + m.symbolMatches >= 1

(* C27 witness: a board holding a stone identical to the next stone, one   *)
(* of its color only, one of its symbol only and one sharing nothing       *)
C27_Witness ==
  /\ computed
  /\ \E q \in cells : sameColor(q) /\ sameSymbol(q)
  /\ \E q \in cells : sameColor(q) /\ ~sameSymbol(q)
  /\ \E q \in cells : ~sameColor(q) /\ sameSymbol(q)
  /\ \E q \in cells : conflicts(q)

(* C28: when the board has no next stone getValidPositions returns the    *)
(* empty set, so after the last stone has been placed every placement      *)
(* request is rejected and the board tiles no longer change until newGame. *)
C28_NoNextStone ==
  /\ [](nextStone = NoStone =>
          (validPositions = <<>> /\ getValidPositions(tiles, nextStone) = <<>>))
  /\ [][(nextStone = NoStone /\ last'.op = "doMove" /\ ~last'.reset) =>
          (~last'.accepted /\ tiles' = tiles)]_vars

(* C28 witness: a click on an empty cell of the board was rejected after   *)
(* the last stone had been placed                                          *)
C28_Witness ==
  /\ nextStone = NoStone
  /\ last.op = "doMove"
  /\ ~last.accepted
  /\ ~last.reset
  /\ last.position.x \in 0..11 /\ last.position.y \in 0..7
  /\ ~occupied(last.position)

(* C29: once the session is GameOver (no next stone is left), no doMove    *)
(* and no showHint changes tiles, stack, score or fourWays; GameOver is    *)
(* left only through newGame.                                              *)
C29_GameOverIsStable ==
  [][(nextStone = NoStone /\ ~last'.reset) =>
       UNCHANGED <<tiles, stoneStack, score, fourWays>>]_vars

(* C30: shuffle returns a permutation of its input, of the same length    *)
(* and with the same number of copies of every stone, for every sequence   *)
(* of random draws, where at step i (from length - 1 down to 1) the swap   *)
(* index j is drawn from [0, i) and so never equals i.                     *)
C30_ShufflePermutes ==
  shuffled =>
    /\ Len(stoneStack) = Len(last.before)
    /\ \A stone \in kindStones :
         copiesIn(stoneStack, stone) = copiesIn(last.before, stone)
    /\ \A k \in 1..Len(last.draws) :
         LET i == Len(last.before) - k
         IN  last.draws[k] >= 0 /\ last.draws[k] < i

(* C30 witness: an array of four stones or more with two copies of a stone *)
(* has been shuffled with every swap index the largest possible, i - 1     *)
C30_Witness ==
  /\ shuffled
  /\ Len(last.before) >= 4
  /\ \E stone \in kindStones : copiesIn(last.before, stone) = 2
  /\ \A k \in 1..Len(last.draws) : last.draws[k] = Len(last.before) - k - 1
  /\ stoneStack # last.before

(* C23: scoring is deterministic: what a placement request makes of board, *)
(* next stone, stack, valid positions, score and fourWays does not depend  *)
(* on whether a hint timer has fired before it, and a hint timer that      *)
(* fires changes none of them; so two sessions with the same random        *)
(* outcomes and the same requests agree on them after every step.          *)
C23_ScoringIsDeterministic ==
  /\ [](\A position \in Clicks :
          LET here == afterClick(game, position)
              there == afterClick([game EXCEPT !.showHint = ~showHint], position)
          IN  /\ there.tiles = here.tiles
              /\ there.nextStone = here.nextStone
              /\ there.stoneStack = here.stoneStack
              /\ there.validPositions = here.validPositions
              /\ there.score = here.score
              /\ there.fourWays = here.fourWays)
  /\ [][last'.op = "showHint" =>
          UNCHANGED <<tiles, nextStone, stoneStack, validPositions, score, fourWays>>]_vars

(* C23 witness: in mid-game a hint timer has fired while another is still  *)
(* pending, and a request for a valid position would score                 *)
C23_Witness ==
  /\ last.op = "showHint"
  /\ showHint
  /\ timers >= 1
  /\ stonesOnBoard > 30
  /\ \E position \in Clicks : afterClick(game, position).score > score

(* C24: if loading any of the three images fails, startup is aborted: no  *)
(* session is created, no click handler is registered, the load is not     *)
(* retried (each image is requested once), and the user is shown a message *)
C24_LoadFailureAborts ==
  (\E i \in Images : page.images[i] = "failed") =>
    /\ ~page.session
    /\ ~page.handler
    /\ page.loads = Len(imageNames)
    /\ page.alerted

(* C31: stone conservation: in every reachable state of a session the     *)
(* occupied cells, the stack and the next stone (if there is one) hold 72  *)
(* stones together, and each of the 36 (color, symbol) pairs occurs        *)
(* exactly twice across board, stack and next stone.                       *)
C31_StoneConservation ==
  /\ stonesOnBoard + Len(stoneStack) + (IF nextStone # NoStone THEN 1 ELSE 0)
       = 2 * NumColors * NumSymbols
  /\ \A color \in 0..(NumColors - 1) : \A symbol \in 0..(NumSymbols - 1) :
       copiesOnBoard(Stone(color, symbol)) + copiesInStack(Stone(color, symbol)) = 2

(* C31 witness: the last stone has just been placed: all 72 stones are on  *)
(* the board, the stack is empty and there is no next stone                *)
C31_Witness ==
  /\ acceptedMove
  /\ nextStone = NoStone
  /\ stoneStack = <<>>
  /\ stonesOnBoard = 2 * NumColors * NumSymbols

(* C32: in every reachable state every member of validPositions is a       *)
(* coordinate inside the grid whose tile is empty and which has at least   *)
(* one occupied orthogonal neighbour, and no coordinate appears twice.     *)
C32_ValidPositionsWellFormed ==
  /\ \A i \in 1..Len(validPositions) :
       /\ inGrid(validPositions[i])
       /\ tileAt(validPositions[i]) = EmptyTile
       /\ occupiedAround(validPositions[i]) # {}
  /\ \A i \in 1..Len(validPositions) : \A j \in 1..Len(validPositions) :
       validPositions[i] = validPositions[j] => i = j

(* C32 witness: after a placement the list has several members, one on the *)
(* border and one with two occupied neighbours, while some empty cell next *)
(* to a stone is not in the list                                           *)
C32_Witness ==
  /\ acceptedMove
  /\ Len(validPositions) >= 5
  /\ \E i \in 1..Len(validPositions) : isBeyond(validPositions[i])
  /\ \E i \in 1..Len(validPositions) :
       Cardinality(occupiedAround(validPositions[i])) >= 2
  /\ \E pos \in cells :
       ~occupied(pos) /\ occupiedAround(pos) # {} /\ ~cachedValid(pos)

(* C33: in a reachable state where a next stone exists, the stack is not   *)
(* empty and validPositions is empty (the player is stuck), the game is    *)
(* not over, and every step other than a reset through the New button,     *)
(* every doMove included, accepts nothing, adds no bonus, paints no game   *)
(* over and leaves board, next stone, stack, valid positions, score and    *)
(* fourWays unchanged: the session stays stuck until newGame is called.    *)
C33_StuckIsStable ==
  /\ [](stuck => ~gameOver)
  /\ [][(stuck /\ ~(last'.op = "doMove" /\ last'.reset)) =>
          /\ UNCHANGED <<tiles, nextStone, stoneStack, validPositions, score, fourWays>>
          /\ ~gameOver'
          /\ last'.op = "doMove" => (~last'.accepted /\ last'.bonus = 0)]_vars

(* C33 witness: a click on an empty cell of the board has just been        *)
(* rejected in a stuck state, with the hint shown                          *)
C33_Witness ==
  /\ stuck
  /\ last.op = "doMove"
  /\ ~last.accepted
  /\ ~last.reset
  /\ inGrid(last.position)
  /\ tileAt(last.position) = EmptyTile
  /\ showHint

(* C34: every accepted placement decreases (stack length + 1 if a next     *)
(* stone exists) by exactly 1 and puts one more stone on the board, so a   *)
(* session accepts at most 66 placements; after the 66th accepted          *)
(* placement there is no next stone and no further placement is accepted   *)
(* in that session.                                                        *)
C34_AtMostSixtySixPlacements ==
  /\ [](placements <= maxPlacements)
  /\ [](placements = maxPlacements => nextStone = NoStone)
  /\ [][((last'.op = "doMove" /\ last'.accepted) =>
            (stonesLeft' = stonesLeft - 1 /\ placements' = placements + 1))
         /\ (placements = maxPlacements =>
               ~(last'.op = "doMove" /\ last'.accepted))]_vars

(* C34 witness: after the 66th accepted placement of a session a click on  *)
(* the board has been rejected                                             *)
C34_Witness ==
  /\ placements = maxPlacements
  /\ stonesLeft = 0
  /\ last.op = "doMove"
  /\ ~last.accepted
  /\ ~last.reset
  /\ inGrid(last.position)

====
